---- MODULE Spec2Model ----
(***************************************************************************)
(* The caching + rate-limiting request gate of the translation and         *)
(* Wikipedia bots (TranslateDiscord.py, TranslateTelegram.py,              *)
(* WikiDiscord.py, WikiTelegram.py): PerformanceCache, RateLimiter,        *)
(* InputValidator and the handler that composes them.                      *)
(*                                                                         *)
(* Time is a discrete clock `now`; every synchronous stretch of code       *)
(* (code between two await points of the asyncio event loop) is one atomic *)
(* action that reads the clock at one instant.                             *)
(***************************************************************************)
EXTENDS Integers, Sequences, FiniteSets, TLC

VARIABLES
    now,            \* time.time(), in whole ticks
    max_size,       \* PerformanceCache.max_size
    ttl,            \* PerformanceCache.ttl
    cache,          \* PerformanceCache.cache: OrderedDict, a sequence of [key, value]
    timestamps,     \* PerformanceCache.timestamps: dict key -> time of the set
    max_requests,   \* RateLimiter.max_requests
    window,         \* RateLimiter.window
    requests,       \* RateLimiter.requests: defaultdict(list) user_id -> timestamps
    pc,             \* per handler task: "idle", or "upstream" while awaiting the provider
    request,        \* per handler task: user and cache key of the suspended handler
    last,           \* what was observed at this instant last: a component call and
                    \* its return value, or the reply a handler sent
    touched,        \* history: live keys, least recently touched (get hit or set) first
    stored,         \* history: key -> the latest set of the key that was not evicted
    started         \* history: user_id -> the times its provider calls were started,
                    \* where they are counted

vars == <<now, max_size, ttl, cache, timestamps, max_requests, window, requests,
          pc, request, last, touched, stored, started>>

cacheVars == <<max_size, ttl, cache, timestamps>>
limiterVars == <<max_requests, window, requests>>
taskVars == <<pc, request>>
historyVars == <<touched, stored, started>>

----------------------------------------------------------------------------
(* Bounds of the model *)

\* the clock runs from 0 to MaxTime when a component is driven directly, and
\* from 0 to BotMaxTime under the handler
MaxTime == 3
BotMaxTime == 2
\* constructor arguments are drawn from 1..Max*
MaxSize == 2
MaxTtl == 2
MaxRequests == 2
MaxWindow == 2
\* the arguments TranslateBot.__init__ passes to the two constructors, scaled
\* down (the code passes 1000, 3600, 15 and 60)
BotMaxSize == 2
BotTtl == 1
BotMaxRequests == 1
BotWindow == 1
\* the longest a provider call may take before the handler must give up, in
\* ticks (the bots configure 10 to 30 s on their HTTP sessions)
UpstreamTimeout == 1
\* the clock of the Wikipedia handler runs from 0 to WikiMaxTime
WikiMaxTime == 1
\* language codes: every code of at most MaxCodeLen characters, and a code
\* padded with up to MaxPad blanks on either side
MaxCodeLen == 3
MaxPad == 3

\* user ids: identities are independent, two are enough for every interleaving
Users == {41, 42}
\* handler tasks that can be in flight at once: handlers interleave only at the
\* await of the provider call, and two of them give every pairwise race
Tasks == {1, 2}

\* Python's None
None == "None"

----------------------------------------------------------------------------
(* Generic helpers for dicts and lists *)

\* d[k] = v on a plain dict
Put(d, k, v) == [x \in (DOMAIN d) \cup {k} |-> IF x = k THEN v ELSE d[x]]

\* d.pop(k, None) for a set of keys
Without(d, ks) == [x \in (DOMAIN d) \ ks |-> d[x]]

\* keys of an OrderedDict, in order
KeysOf(c) == [i \in 1..Len(c) |-> c[i].key]
KeySet(c) == {c[i].key : i \in 1..Len(c)}

\* self.cache[key]
ValueOf(c, k) == c[CHOOSE i \in 1..Len(c) : c[i].key = k].value

\* a sequence without the entries whose key is in ks
DropKeys(c, ks) == SelectSeq(c, LAMBDA e : e.key \notin ks)

\* a list of keys without the keys in ks
DropElem(s, ks) == SelectSeq(s, LAMBDA e : e \notin ks)

----------------------------------------------------------------------------
(* PerformanceCache *)

\* (mutant) the purge pops the values and leaves their stored times
cleanup_expired_values_only(c, ts, t) ==
    LET expired_keys == {key \in DOMAIN ts : t - ts[key] > ttl}
    IN  [cache |-> DropKeys(c, expired_keys),
         timestamps |-> ts]

\* _cleanup_expired at time t: drops every key whose age exceeds ttl from both
\* tables
cleanup_expired(c, ts, t) ==
    LET expired_keys == {key \in DOMAIN ts : t - ts[key] > ttl}
    IN  [cache |-> DropKeys(c, expired_keys),
         timestamps |-> Without(ts, expired_keys)]

\* (mutant) get that forgets the purge
cache_get_no_cleanup(c, ts, t, key) ==
    IF key \in KeySet(c)
    THEN [cache |-> Append(DropKeys(c, {key}), [key |-> key, value |-> ValueOf(c, key)]),
          timestamps |-> ts,
          ret |-> ValueOf(c, key)]
    ELSE [cache |-> c, timestamps |-> ts, ret |-> None]

\* (mutant) get that, on a miss, moves the oldest entry to the end
cache_get_miss_rotates(c, ts, t, key) ==
    LET cl == cleanup_expired(c, ts, t)
    IN  IF key \in KeySet(cl.cache)
        THEN [cache |-> Append(DropKeys(cl.cache, {key}),
                               [key |-> key, value |-> ValueOf(cl.cache, key)]),
              timestamps |-> cl.timestamps,
              ret |-> ValueOf(cl.cache, key)]
        ELSE [cache |-> IF cl.cache = <<>> THEN <<>>
                        ELSE Append(Tail(cl.cache), Head(cl.cache)),
              timestamps |-> cl.timestamps, ret |-> None]

\* (mutant) get that restarts the TTL of the entry it returns
cache_get_refreshing(c, ts, t, key) ==
    LET cl == cleanup_expired(c, ts, t)
    IN  IF key \in KeySet(cl.cache)
        THEN [cache |-> Append(DropKeys(cl.cache, {key}),
                               [key |-> key, value |-> ValueOf(cl.cache, key)]),
              timestamps |-> Put(cl.timestamps, key, t),
              ret |-> ValueOf(cl.cache, key)]
        ELSE [cache |-> cl.cache, timestamps |-> cl.timestamps, ret |-> None]

\* get(key) at time t: the tables after the call and the returned value
cache_get(c, ts, t, key) ==
    LET cl == cleanup_expired(c, ts, t)
    IN  IF key \in KeySet(cl.cache)
        THEN \* move_to_end(key); return self.cache[key]
             [cache |-> Append(DropKeys(cl.cache, {key}),
                               [key |-> key, value |-> ValueOf(cl.cache, key)]),
              timestamps |-> cl.timestamps,
              ret |-> ValueOf(cl.cache, key)]
        ELSE [cache |-> cl.cache, timestamps |-> cl.timestamps, ret |-> None]

\* (mutant) set that evicts only once the cache is over capacity
cache_set_strict(c, ts, t, key, value) ==
    LET cl == cleanup_expired(c, ts, t)
        full == Len(cl.cache) > max_size
        oldest_key == cl.cache[1].key
        c1 == IF full THEN Tail(cl.cache) ELSE cl.cache
        ts1 == IF full THEN Without(cl.timestamps, {oldest_key}) ELSE cl.timestamps
        c2 == IF key \in KeySet(c1)
              THEN [i \in 1..Len(c1) |->
                      IF c1[i].key = key THEN [key |-> key, value |-> value] ELSE c1[i]]
              ELSE Append(c1, [key |-> key, value |-> value])
    IN  [cache |-> c2,
         timestamps |-> Put(ts1, key, t),
         evicted |-> IF full THEN oldest_key ELSE None]

\* (mutant) set that always appends a new entry, also for a key it holds
cache_set_append(c, ts, t, key, value) ==
    LET cl == cleanup_expired(c, ts, t)
        full == Len(cl.cache) >= max_size
        oldest_key == cl.cache[1].key
        c1 == IF full THEN Tail(cl.cache) ELSE cl.cache
        ts1 == IF full THEN Without(cl.timestamps, {oldest_key}) ELSE cl.timestamps
    IN  [cache |-> Append(c1, [key |-> key, value |-> value]),
         timestamps |-> Put(ts1, key, t),
         evicted |-> IF full THEN oldest_key ELSE None]

\* (mutant) set that keeps the stored time of a key it overwrites
cache_set_keep_time(c, ts, t, key, value) ==
    LET cl == cleanup_expired(c, ts, t)
        full == Len(cl.cache) >= max_size
        oldest_key == cl.cache[1].key
        c1 == IF full THEN Tail(cl.cache) ELSE cl.cache
        ts1 == IF full THEN Without(cl.timestamps, {oldest_key}) ELSE cl.timestamps
        c2 == IF key \in KeySet(c1)
              THEN [i \in 1..Len(c1) |->
                      IF c1[i].key = key THEN [key |-> key, value |-> value] ELSE c1[i]]
              ELSE Append(c1, [key |-> key, value |-> value])
    IN  [cache |-> c2,
         timestamps |-> IF key \in DOMAIN ts1 THEN ts1 ELSE Put(ts1, key, t),
         evicted |-> IF full THEN oldest_key ELSE None]

\* (mutant) set that forgets the purge
cache_set_no_cleanup(c, ts, t, key, value) ==
    LET full == Len(c) >= max_size
        oldest_key == c[1].key
        c1 == IF full THEN Tail(c) ELSE c
        ts1 == IF full THEN Without(ts, {oldest_key}) ELSE ts
        c2 == IF key \in KeySet(c1)
              THEN [i \in 1..Len(c1) |->
                      IF c1[i].key = key THEN [key |-> key, value |-> value] ELSE c1[i]]
              ELSE Append(c1, [key |-> key, value |-> value])
    IN  [cache |-> c2,
         timestamps |-> Put(ts1, key, t),
         evicted |-> IF full THEN oldest_key ELSE None]

\* set(key, value) at time t: the tables after the call, and the key popped for
\* capacity (None when none was).  Assigning to a key the OrderedDict already
\* holds replaces its value in place: the key keeps its position.
cache_set(c, ts, t, key, value) ==
    LET cl == cleanup_expired(c, ts, t)
        full == Len(cl.cache) >= max_size
        oldest_key == cl.cache[1].key
        c1 == IF full THEN Tail(cl.cache) ELSE cl.cache
        ts1 == IF full THEN Without(cl.timestamps, {oldest_key}) ELSE cl.timestamps
        c2 == IF key \in KeySet(c1)
              THEN [i \in 1..Len(c1) |->
                      IF c1[i].key = key THEN [key |-> key, value |-> value] ELSE c1[i]]
              ELSE Append(c1, [key |-> key, value |-> value])
    IN  [cache |-> c2,
         timestamps |-> Put(ts1, key, t),
         evicted |-> IF full THEN oldest_key ELSE None]

----------------------------------------------------------------------------
(* RateLimiter *)

\* self.requests[user_id] of a defaultdict(list)
history(reqs, user_id) == IF user_id \in DOMAIN reqs THEN reqs[user_id] ELSE <<>>

\* (mutant) admits while the count is at most max_requests
is_allowed_off_by_one(reqs, t, user_id) ==
    LET kept == SelectSeq(history(reqs, user_id), LAMBDA req_time : t - req_time < window)
    IN  [requests |-> Put(reqs, user_id, kept),
         ret |-> Len(kept) <= max_requests]

\* (mutant) counts the whole history and prunes nothing
is_allowed_no_prune(reqs, t, user_id) ==
    [requests |-> Put(reqs, user_id, history(reqs, user_id)),
     ret |-> Len(history(reqs, user_id)) < max_requests]

\* (mutant) keeps a timestamp that is exactly window old
is_allowed_inclusive(reqs, t, user_id) ==
    LET kept == SelectSeq(history(reqs, user_id), LAMBDA req_time : t - req_time <= window)
    IN  [requests |-> Put(reqs, user_id, kept),
         ret |-> Len(kept) < max_requests]

\* (mutant) records the attempt it admits
is_allowed_recording(reqs, t, user_id) ==
    LET kept == SelectSeq(history(reqs, user_id), LAMBDA req_time : t - req_time < window)
    IN  [requests |-> Put(reqs, user_id,
                          IF Len(kept) < max_requests THEN Append(kept, t) ELSE kept),
         ret |-> Len(kept) < max_requests]

\* (mutant) is_allowed that forgets an identity whose history is empty
is_allowed_forgetting(reqs, t, user_id) ==
    LET kept == SelectSeq(history(reqs, user_id), LAMBDA req_time : t - req_time < window)
    IN  [requests |-> IF kept = <<>> THEN Without(reqs, {user_id})
                      ELSE Put(reqs, user_id, kept),
         ret |-> Len(kept) < max_requests]

\* is_allowed(user_id) at time t: the table after the call and the answer
is_allowed(reqs, t, user_id) ==
    LET user_requests == history(reqs, user_id)
        kept == SelectSeq(user_requests, LAMBDA req_time : t - req_time < window)
    IN  [requests |-> Put(reqs, user_id, kept),
         ret |-> Len(kept) < max_requests]

\* (mutant) add_request that drops the timestamps outside the window first
add_request_pruning(reqs, t, user_id) ==
    Put(reqs, user_id,
        Append(SelectSeq(history(reqs, user_id), LAMBDA req_time : t - req_time < window), t))

\* (mutant) add_request that records the request for every tracked identity
add_request_global(reqs, t, user_id) ==
    [x \in (DOMAIN reqs) \cup {user_id} |-> Append(history(reqs, x), t)]

\* add_request(user_id) at time t: the table after the call
add_request(reqs, t, user_id) ==
    Put(reqs, user_id, Append(history(reqs, user_id), t))

----------------------------------------------------------------------------
(* Inputs *)

\* characters are one-character tokens; a text is a sequence of them
Letters == <<"a", "b", "c", "d", "e", "g", "h">>
Fr == <<"f", "r">>

\* the cache key: hashlib.md5(f"{text}:{target_lang}".encode()).hexdigest().
\* target_lang holds no ':' once validated, so the formatted string determines
\* the pair; MD5 is taken to be collision-free on the inputs of the model.
cache_key(text, target_lang) == <<text, target_lang>>

\* keys and values used when the cache is driven directly
KeyNo(i) == cache_key(<<Letters[i]>>, Fr)
\* (keys are interchangeable: three of them overfill every cache of SpecCache
\* as written, and max_size + 1 of them overfill the cache of SpecLru)
Keys == {KeyNo(1), KeyNo(2), KeyNo(3)}
LruKeys == {KeyNo(i) : i \in 1..(MaxSize + 2)}
Values == {"x", "y"}

----------------------------------------------------------------------------
(* InputValidator (TranslateDiscord.py) *)

IsSpace(c) == c \in {" "}
\* str.isalnum() follows Unicode: "E'" (e with acute accent) and "Zh" (a CJK
\* ideograph) are letters too
IsAlnum(c) == c \in {"a", "b", "c", "d", "e", "f", "g", "h", "n", "r", "s", "t", "u",
                     "A", "F", "R", "S", "U", "1", "E'", "Zh"}
Lower(c) == CASE c = "A" -> "a" [] c = "F" -> "f" [] c = "R" -> "r"
              [] c = "S" -> "s" [] c = "U" -> "u" [] OTHER -> c

RECURSIVE lstrip(_)
lstrip(s) == IF s # <<>> /\ IsSpace(Head(s)) THEN lstrip(Tail(s)) ELSE s

RECURSIVE rstrip(_)
rstrip(s) == IF s # <<>> /\ IsSpace(s[Len(s)]) THEN rstrip(SubSeq(s, 1, Len(s) - 1)) ELSE s

\* str.strip()
strip(s) == rstrip(lstrip(s))

\* str.lower()
lower(s) == [i \in 1..Len(s) |-> Lower(s[i])]

\* str.isalnum(): non-empty and every character alphanumeric
isalnum(s) == s # <<>> /\ \A i \in 1..Len(s) : IsAlnum(s[i])

\* bytes of one character in UTF-8: ASCII takes one, "E'" two, "Zh" three
Utf8Width(c) == CASE c = "E'" -> 2 [] c = "Zh" -> 3 [] OTHER -> 1

\* len(text.encode('utf-8'))
Utf8Len(s) ==
    Len(s) + Cardinality({i \in 1..Len(s) : Utf8Width(s[i]) = 2})
           + 2 * Cardinality({i \in 1..Len(s) : Utf8Width(s[i]) = 3})

\* validate_text with "len(text) >= 4000" in place of "len(text) > 4000"
validate_text_inclusive(text) ==
    IF text = <<>> \/ strip(text) = <<>>
    THEN [valid |-> FALSE, error |-> "Text cannot be empty"]
    ELSE IF Len(text) >= 4000
    THEN [valid |-> FALSE, error |-> "Text is too long (maximum 4000 characters)"]
    ELSE IF Utf8Len(text) > 8000
    THEN [valid |-> FALSE, error |-> "Text is too large in bytes"]
    ELSE [valid |-> TRUE, error |-> None]

validate_text(text) ==
    IF text = <<>> \/ strip(text) = <<>>
    THEN [valid |-> FALSE, error |-> "Text cannot be empty"]
    ELSE IF Len(text) > 4000
    THEN [valid |-> FALSE, error |-> "Text is too long (maximum 4000 characters)"]
    ELSE IF Utf8Len(text) > 8000
    THEN [valid |-> FALSE, error |-> "Text is too large in bytes"]
    ELSE [valid |-> TRUE, error |-> None]

\* InputValidator.validate_text of TranslateTelegram.py: the Telegram message limit
validate_text_telegram(text) ==
    IF text = <<>> \/ strip(text) = <<>>
    THEN [valid |-> FALSE, error |-> "Text cannot be empty"]
    ELSE IF Len(text) > 4096
    THEN [valid |-> FALSE, error |-> "Text is too long (maximum 4096 characters)"]
    ELSE IF Utf8Len(text) > 8000
    THEN [valid |-> FALSE, error |-> "Text is too large in bytes"]
    ELSE [valid |-> TRUE, error |-> None]

\* validate_language_code without the .lower() of the sanitization
validate_language_code_no_lower(lang_code) ==
    IF lang_code = <<>> \/ strip(lang_code) = <<>>
    THEN [valid |-> FALSE, lang |-> <<>>, error |-> "Language code cannot be empty"]
    ELSE IF Len(lang_code) > 10
    THEN [valid |-> FALSE, lang |-> <<>>, error |-> "Invalid language code format"]
    ELSE LET processed == strip(lang_code)
         IN  IF ~isalnum(SelectSeq(processed, LAMBDA ch : ch \notin {"-", "_"}))
             THEN [valid |-> FALSE, lang |-> <<>>,
                   error |-> "Language code contains invalid characters"]
             ELSE [valid |-> TRUE, lang |-> processed, error |-> None]

\* the same in TranslateDiscord.py and TranslateTelegram.py
validate_language_code(lang_code) ==
    IF lang_code = <<>> \/ strip(lang_code) = <<>>
    THEN [valid |-> FALSE, lang |-> <<>>, error |-> "Language code cannot be empty"]
    ELSE IF Len(lang_code) > 10
    THEN [valid |-> FALSE, lang |-> <<>>, error |-> "Invalid language code format"]
    ELSE LET processed == lower(strip(lang_code))
         IN  IF ~isalnum(SelectSeq(processed, LAMBDA ch : ch \notin {"-", "_"}))
             THEN [valid |-> FALSE, lang |-> <<>>,
                   error |-> "Language code contains invalid characters"]
             ELSE [valid |-> TRUE, lang |-> processed, error |-> None]

\* the texts and language codes users send
Texts == {<<>>, <<"a">>, <<"b">>}
Langs == {<<"F", "R">>, <<".", "/">>}

\* what GoogleTranslator(source='auto', target=target_lang).translate(text) can
\* return: the translation of the text, an empty string or None
Translated(text, target_lang) == IF text = <<"a">> THEN "x" ELSE "y"
Translations(text, target_lang) == {Translated(text, target_lang), "", None}

\* Python truthiness of a str-or-None
Truthy(v) == v \notin {"", None}

----------------------------------------------------------------------------
(* Initial states *)

NoCall == [op |-> "none"]
NotStored == [at |-> -1]
NoRequest == [user |-> 0, text |-> <<>>, target_lang |-> <<>>, start_time |-> 0]

InitCommon ==
    /\ now = 0
    /\ cache = <<>>
    /\ timestamps = <<>>
    /\ requests = <<>>
    /\ pc = [t \in Tasks |-> "idle"]
    /\ request = [t \in Tasks |-> NoRequest]
    /\ last = NoCall
    /\ touched = <<>>
    /\ stored = [k \in LruKeys |-> NotStored]
    /\ started = <<>>

----------------------------------------------------------------------------
(* The clock *)

Tick(limit) ==
    /\ now < limit
    /\ now' = now + 1
    /\ last' = NoCall
    /\ UNCHANGED <<cacheVars, limiterVars, taskVars, historyVars>>

----------------------------------------------------------------------------
(* The cache driven directly: any sequence of get and set calls *)

\* the first key of the touch order that is still in the cache
LeastRecentlyTouched(order, c) ==
    LET live == SelectSeq(order, LAMBDA k : k \in KeySet(c))
    IN  IF live = <<>> THEN None ELSE Head(live)

CacheGet(key) ==
    \E r \in {cache_get(cache, timestamps, now, key)} :
        /\ cache' = r.cache
        /\ timestamps' = r.timestamps
        /\ last' = [op |-> "get", key |-> key, ret |-> r.ret]
        /\ touched' = LET live == SelectSeq(touched, LAMBDA k : k \in KeySet(r.cache))
                      IN  IF r.ret = None THEN live
                          ELSE Append(DropElem(live, {key}), key)
        /\ UNCHANGED <<now, max_size, ttl, limiterVars, taskVars, stored, started>>

CacheSet(key, value) ==
    \E r \in {cache_set(cache, timestamps, now, key, value)},
       cl \in {cleanup_expired(cache, timestamps, now)} :
        /\ cache' = r.cache
        /\ timestamps' = r.timestamps
        /\ last' = [op |-> "set", key |-> key, evicted |-> r.evicted,
                    lru |-> LeastRecentlyTouched(touched, cl.cache),
                    old |-> IF key \in KeySet(cl.cache)
                            THEN [at |-> cl.timestamps[key], value |-> ValueOf(cl.cache, key)]
                            ELSE NotStored]
        /\ touched' = LET live == SelectSeq(touched, LAMBDA k : k \in KeySet(r.cache))
                      IN  Append(DropElem(live, {key}), key)
        /\ stored' = [k \in LruKeys |->
                        IF k = key THEN [at |-> now, value |-> value]
                        ELSE IF k = r.evicted THEN NotStored
                        ELSE stored[k]]
        /\ UNCHANGED <<now, max_size, ttl, limiterVars, taskVars, started>>

\* PerformanceCache(max_size, ttl) for any arguments >= 1
InitCache ==
    /\ InitCommon
    /\ max_size \in 1..MaxSize
    /\ ttl \in 1..MaxTtl
    /\ max_requests = MaxRequests
    /\ window = MaxWindow

NextCache ==
    \/ Tick(MaxTime)
    \/ \E key \in Keys : CacheGet(key)
    \/ \E key \in Keys, value \in Values : CacheSet(key, value)

SpecCache == InitCache /\ [][NextCache]_vars

\* A cache of three or more entries whose entries do not expire: recency alone
InitLru ==
    /\ InitCommon
    /\ max_size = MaxSize + 1
    /\ ttl = MaxTtl
    /\ max_requests = MaxRequests
    /\ window = MaxWindow

NextLru ==
    \/ \E key \in LruKeys : CacheGet(key)
    \/ \E key \in LruKeys : CacheSet(key, "x")

SpecLru == InitLru /\ [][NextLru]_vars

----------------------------------------------------------------------------
(* The rate limiter driven directly: any sequence of is_allowed and add_request *)

IsAllowed(user_id) ==
    \E r \in {is_allowed(requests, now, user_id)} :
        /\ requests' = r.requests
        /\ last' = [op |-> "is_allowed", user |-> user_id, ret |-> r.ret,
                    before |-> history(requests, user_id)]
        /\ UNCHANGED <<now, cacheVars, max_requests, window, taskVars, historyVars>>

\* a caller may record without asking first; the history is capped at
\* MaxRequests + 1 entries to keep the state space finite
AddRequest(user_id) ==
    /\ Len(history(requests, user_id)) <= MaxRequests
    /\ requests' = add_request(requests, now, user_id)
    /\ last' = [op |-> "add_request", user |-> user_id]
    /\ UNCHANGED <<now, cacheVars, max_requests, window, taskVars, historyVars>>

\* RateLimiter(max_requests, window) for any arguments >= 1
InitLimiter ==
    /\ InitCommon
    /\ max_size = MaxSize
    /\ ttl = MaxTtl
    /\ max_requests \in 1..MaxRequests
    /\ window \in 1..MaxWindow

NextLimiter ==
    \/ Tick(MaxTime)
    \/ \E user_id \in Users : IsAllowed(user_id)
    \/ \E user_id \in Users : AddRequest(user_id)

SpecLimiter == InitLimiter /\ [][NextLimiter]_vars

----------------------------------------------------------------------------
(* The handler: TranslateBot.translate_text (TranslateDiscord.py), one task  *)
(* per slash command.  The other three bots run the same pipeline.  Code     *)
(* between two awaits runs without interleaving.  The awaits that send a     *)
(* reply touch neither the cache nor the limiter and the handler returns     *)
(* after them, so a reply is recorded in the step that decides it.           *)

\* (mutant) looks the key up in the cache before it asks the limiter
translate_text_cache_first(reqs, c, ts, t, user_id, text, target_lang) ==
    LET tv == validate_text(text)
        lv == validate_language_code(target_lang)
        key == cache_key(text, lv.lang)
        g == cache_get(c, ts, t, key)
        al == is_allowed(reqs, t, user_id)
        rejected(kind) == [requests |-> al.requests, cache |-> g.cache,
                           timestamps |-> g.timestamps, pc |-> "done", key |-> None,
                           reply |-> [kind |-> kind, value |-> None, calls |-> 0]]
    IN  IF tv.valid /\ lv.valid /\ Truthy(g.ret)
        THEN [requests |-> reqs, cache |-> g.cache, timestamps |-> g.timestamps,
              pc |-> "done", key |-> key,
              reply |-> [kind |-> "cached", value |-> g.ret, calls |-> 0]]
        ELSE IF ~al.ret THEN rejected("RateLimited")
        ELSE IF ~tv.valid \/ ~lv.valid THEN rejected("InvalidInput")
        ELSE [requests |-> add_request(al.requests, t, user_id),
              cache |-> g.cache, timestamps |-> g.timestamps,
              pc |-> "upstream", key |-> key,
              reply |-> [kind |-> "none", value |-> None, calls |-> 1]]

\* (mutant) calls add_request before the cache lookup, on hits too
translate_text_record_on_hit(reqs, c, ts, t, user_id, text, target_lang) ==
    LET al == is_allowed(reqs, t, user_id)
        tv == validate_text(text)
        lv == validate_language_code(target_lang)
        key == cache_key(text, lv.lang)
        g == cache_get(c, ts, t, key)
        rejected(kind) == [requests |-> al.requests, cache |-> c, timestamps |-> ts,
                           pc |-> "done", key |-> None,
                           reply |-> [kind |-> kind, value |-> None, calls |-> 0]]
    IN  IF ~al.ret THEN rejected("RateLimited")
        ELSE IF ~tv.valid THEN rejected("InvalidInput")
        ELSE IF ~lv.valid THEN rejected("InvalidInput")
        ELSE IF Truthy(g.ret)
        THEN [requests |-> add_request(al.requests, t, user_id),
              cache |-> g.cache, timestamps |-> g.timestamps,
              pc |-> "done", key |-> key,
              reply |-> [kind |-> "cached", value |-> g.ret, calls |-> 0]]
        ELSE [requests |-> add_request(al.requests, t, user_id),
              cache |-> g.cache, timestamps |-> g.timestamps,
              pc |-> "upstream", key |-> key,
              reply |-> [kind |-> "none", value |-> None, calls |-> 1]]

\* (mutant) looks the key up in the cache before it validates the input
translate_text_validate_late(reqs, c, ts, t, user_id, text, target_lang) ==
    LET al == is_allowed(reqs, t, user_id)
        tv == validate_text(text)
        lv == validate_language_code(target_lang)
        key == cache_key(text, lv.lang)
        g == cache_get(c, ts, t, key)
        rejected(kind, c1, ts1) ==
            [requests |-> al.requests, cache |-> c1, timestamps |-> ts1,
             pc |-> "done", key |-> None,
             reply |-> [kind |-> kind, value |-> None, calls |-> 0]]
    IN  IF ~al.ret THEN rejected("RateLimited", c, ts)
        ELSE IF ~tv.valid THEN rejected("InvalidInput", g.cache, g.timestamps)
        ELSE IF ~lv.valid THEN rejected("InvalidInput", g.cache, g.timestamps)
        ELSE IF Truthy(g.ret)
        THEN [requests |-> al.requests, cache |-> g.cache, timestamps |-> g.timestamps,
              pc |-> "done", key |-> key,
              reply |-> [kind |-> "cached", value |-> g.ret, calls |-> 0]]
        ELSE [requests |-> add_request(al.requests, t, user_id),
              cache |-> g.cache, timestamps |-> g.timestamps,
              pc |-> "upstream", key |-> key,
              reply |-> [kind |-> "none", value |-> None, calls |-> 1]]

\* From the start of translate_text to its first await: the rate check, the
\* validation, the cache lookup and, on a miss, add_request.  The result is the
\* limiter and cache tables after the stretch, whether the task then awaits the
\* provider ("upstream") or replies and returns ("done"), and the reply.
\* (mutant) a rejected request is recorded in the identity's history
translate_text_charge_rejected(reqs, c, ts, t, user_id, text, target_lang) ==
    LET al == is_allowed(reqs, t, user_id)
        tv == validate_text(text)
        lv == validate_language_code(target_lang)
        key == cache_key(text, lv.lang)
        g == cache_get(c, ts, t, key)
        rejected(kind) == [requests |-> add_request(al.requests, t, user_id),
                           cache |-> c, timestamps |-> ts,
                           pc |-> "done", key |-> None,
                           reply |-> [kind |-> kind, value |-> None, calls |-> 0]]
    IN  IF ~al.ret THEN rejected("RateLimited")
        ELSE IF ~tv.valid THEN rejected("InvalidInput")
        ELSE IF ~lv.valid THEN rejected("InvalidInput")
        ELSE IF Truthy(g.ret)
        THEN [requests |-> al.requests, cache |-> g.cache, timestamps |-> g.timestamps,
              pc |-> "done", key |-> key,
              reply |-> [kind |-> "cached", value |-> g.ret, calls |-> 0]]
        ELSE [requests |-> add_request(al.requests, t, user_id),
              cache |-> g.cache, timestamps |-> g.timestamps,
              pc |-> "upstream", key |-> key,
              reply |-> [kind |-> "none", value |-> None, calls |-> 1]]

\* (mutant) an admitted request is not recorded in the identity's history
translate_text_unrecorded(reqs, c, ts, t, user_id, text, target_lang) ==
    LET al == is_allowed(reqs, t, user_id)
        tv == validate_text(text)
        lv == validate_language_code(target_lang)
        key == cache_key(text, lv.lang)
        g == cache_get(c, ts, t, key)
        rejected(kind) == [requests |-> al.requests, cache |-> c, timestamps |-> ts,
                           pc |-> "done", key |-> None,
                           reply |-> [kind |-> kind, value |-> None, calls |-> 0]]
    IN  IF ~al.ret THEN rejected("RateLimited")
        ELSE IF ~tv.valid THEN rejected("InvalidInput")
        ELSE IF ~lv.valid THEN rejected("InvalidInput")
        ELSE IF Truthy(g.ret)
        THEN [requests |-> al.requests, cache |-> g.cache, timestamps |-> g.timestamps,
              pc |-> "done", key |-> key,
              reply |-> [kind |-> "cached", value |-> g.ret, calls |-> 0]]
        ELSE [requests |-> al.requests,
              cache |-> g.cache, timestamps |-> g.timestamps,
              pc |-> "upstream", key |-> key,
              reply |-> [kind |-> "none", value |-> None, calls |-> 1]]

\* (mutant) the cache lookup of the gate does not purge expired entries
translate_text_stale_hit(reqs, c, ts, t, user_id, text, target_lang) ==
    LET al == is_allowed(reqs, t, user_id)
        tv == validate_text(text)
        lv == validate_language_code(target_lang)
        key == cache_key(text, lv.lang)
        g == cache_get_no_cleanup(c, ts, t, key)
        rejected(kind) == [requests |-> al.requests, cache |-> c, timestamps |-> ts,
                           pc |-> "done", key |-> None,
                           reply |-> [kind |-> kind, value |-> None, calls |-> 0]]
    IN  IF ~al.ret THEN rejected("RateLimited")
        ELSE IF ~tv.valid THEN rejected("InvalidInput")
        ELSE IF ~lv.valid THEN rejected("InvalidInput")
        ELSE IF Truthy(g.ret)
        THEN [requests |-> al.requests, cache |-> g.cache, timestamps |-> g.timestamps,
              pc |-> "done", key |-> key,
              reply |-> [kind |-> "cached", value |-> g.ret, calls |-> 0]]
        ELSE [requests |-> add_request(al.requests, t, user_id),
              cache |-> g.cache, timestamps |-> g.timestamps,
              pc |-> "upstream", key |-> key,
              reply |-> [kind |-> "none", value |-> None, calls |-> 1]]

translate_text(reqs, c, ts, t, user_id, text, target_lang) ==
    LET al == is_allowed(reqs, t, user_id)
        tv == validate_text(text)
        lv == validate_language_code(target_lang)
        key == cache_key(text, lv.lang)
        g == cache_get(c, ts, t, key)
        rejected(kind) == [requests |-> al.requests, cache |-> c, timestamps |-> ts,
                           pc |-> "done", key |-> None,
                           reply |-> [kind |-> kind, value |-> None, calls |-> 0]]
    IN  IF ~al.ret THEN rejected("RateLimited")
        ELSE IF ~tv.valid THEN rejected("InvalidInput")
        ELSE IF ~lv.valid THEN rejected("InvalidInput")
        ELSE IF Truthy(g.ret)
        THEN [requests |-> al.requests, cache |-> g.cache, timestamps |-> g.timestamps,
              pc |-> "done", key |-> key,
              reply |-> [kind |-> "cached", value |-> g.ret, calls |-> 0]]
        ELSE [requests |-> add_request(al.requests, t, user_id),
              cache |-> g.cache, timestamps |-> g.timestamps,
              pc |-> "upstream", key |-> key,
              reply |-> [kind |-> "none", value |-> None, calls |-> 1]]

\* the reply a handler sends, with the command it answers
Reply(user_id, text, target_lang, reply) ==
    [op |-> "reply", user |-> user_id, text |-> text, target_lang |-> target_lang,
     kind |-> reply.kind, value |-> reply.value, calls |-> reply.calls, at |-> now]

\* cache_key, a local of the suspended handler
TaskKey(task) == cache_key(request[task].text, request[task].target_lang)

\* (mutant) the provider call blocks the event loop: no handler starts while
\* another one is waiting for the provider
FreeTask_blocking(task) == \A other \in Tasks : pc[other] = "idle" /\ task <= other

\* handler tasks are anonymous: a new request takes the first free one
FreeTask(task) == pc[task] = "idle" /\ \A other \in Tasks : other < task => pc[other] # "idle"

\* a slash command arrives and its handler runs up to its first await;
\* start_time is the value its local of that name gets (line 168)
Handle(task, user_id, text, target_lang, start_time) ==
    /\ FreeTask(task)
    /\ \E r \in {translate_text(requests, cache, timestamps, now, user_id, text, target_lang)} :
        /\ requests' = r.requests
        /\ cache' = r.cache
        /\ timestamps' = r.timestamps
        /\ IF r.pc = "upstream"
           THEN /\ pc' = [pc EXCEPT ![task] = "upstream"]
                /\ request' = [request EXCEPT ![task] =
                                 [user |-> user_id, text |-> text, target_lang |-> r.key[2],
                                  start_time |-> start_time]]
                /\ last' = NoCall
           ELSE /\ last' = Reply(user_id, text, target_lang, r.reply)
                /\ UNCHANGED <<pc, request>>
        /\ UNCHANGED <<now, max_size, ttl, max_requests, window, touched, stored>>

\* start_time only feeds the latency shown in the reply: it is left out (0)
\* where the waiting time of a handler is not looked at
Gate(task, user_id, text, target_lang) ==
    /\ Handle(task, user_id, text, target_lang, 0)
    /\ UNCHANGED started

\* the handler with its start_time kept
TimedGate(task, user_id, text, target_lang) ==
    /\ Handle(task, user_id, text, target_lang, now)
    /\ UNCHANGED started

\* the handler with every provider call it starts written down: the call of
\* lines 172-175 is started in the stretch that ran the gate
CountedGate(task, user_id, text, target_lang) ==
    /\ Handle(task, user_id, text, target_lang, 0)
    /\ started' = IF pc'[task] = "upstream"
                  THEN Put(started, user_id, Append(history(started, user_id), now))
                  ELSE started

\* (mutant) sends the translation without storing it in the cache
UpstreamReturns_no_store(task, translated_text) ==
    /\ pc[task] = "upstream"
    /\ translated_text \in Translations(request[task].text, request[task].target_lang)
    /\ last' = Reply(request[task].user, request[task].text, request[task].target_lang,
                     IF Truthy(translated_text)
                     THEN [kind |-> "fresh", value |-> translated_text, calls |-> 1]
                     ELSE [kind |-> "UpstreamEmpty", value |-> None, calls |-> 1])
    /\ pc' = [pc EXCEPT ![task] = "idle"]
    /\ request' = [request EXCEPT ![task] = NoRequest]
    /\ UNCHANGED <<now, cacheVars, limiterVars, historyVars>>

\* (mutant) stores the result in the cache before it checks that it is not empty
UpstreamReturns_store_first(task, translated_text) ==
    /\ pc[task] = "upstream"
    /\ translated_text \in Translations(request[task].text, request[task].target_lang)
    /\ \E r \in {cache_set(cache, timestamps, now, TaskKey(task), translated_text)} :
          /\ cache' = r.cache
          /\ timestamps' = r.timestamps
    /\ last' = Reply(request[task].user, request[task].text, request[task].target_lang,
                     IF Truthy(translated_text)
                     THEN [kind |-> "fresh", value |-> translated_text, calls |-> 1]
                     ELSE [kind |-> "UpstreamEmpty", value |-> None, calls |-> 1])
    /\ pc' = [pc EXCEPT ![task] = "idle"]
    /\ request' = [request EXCEPT ![task] = NoRequest]
    /\ UNCHANGED <<now, max_size, ttl, limiterVars, historyVars>>

\* run_in_executor returns translated_text: an empty result raises ValueError,
\* anything else is stored in the cache and sent
UpstreamReturns(task, translated_text) ==
    /\ pc[task] = "upstream"
    /\ translated_text \in Translations(request[task].text, request[task].target_lang)
    /\ IF ~Truthy(translated_text)
       THEN /\ last' = Reply(request[task].user, request[task].text, request[task].target_lang,
                             [kind |-> "UpstreamEmpty", value |-> None, calls |-> 1])
            /\ UNCHANGED <<cache, timestamps>>
       ELSE \E r \in {cache_set(cache, timestamps, now, TaskKey(task), translated_text)} :
                /\ cache' = r.cache
                /\ timestamps' = r.timestamps
                /\ last' = Reply(request[task].user, request[task].text, request[task].target_lang,
                                 [kind |-> "fresh", value |-> translated_text, calls |-> 1])
    /\ pc' = [pc EXCEPT ![task] = "idle"]
    /\ request' = [request EXCEPT ![task] = NoRequest]
    /\ UNCHANGED <<now, max_size, ttl, limiterVars, historyVars>>

\* (mutant) a failed provider call drops the cache entry of its key
UpstreamRaises_invalidates(task, exc) ==
    /\ pc[task] = "upstream"
    /\ last' = Reply(request[task].user, request[task].text, request[task].target_lang,
                     [kind |-> CASE exc = "TimeoutError" -> "UpstreamTimeout"
                                 [] exc = "ValueError" -> "UpstreamEmpty"
                                 [] OTHER -> "UpstreamError",
                      value |-> None, calls |-> 1])
    /\ cache' = DropKeys(cache, {TaskKey(task)})
    /\ timestamps' = Without(timestamps, {TaskKey(task)})
    /\ pc' = [pc EXCEPT ![task] = "idle"]
    /\ request' = [request EXCEPT ![task] = NoRequest]
    /\ UNCHANGED <<now, max_size, ttl, limiterVars, historyVars>>

\* (mutant) a failed provider call gives the quota unit back
UpstreamRaises_refund(task, exc) ==
    /\ pc[task] = "upstream"
    /\ last' = Reply(request[task].user, request[task].text, request[task].target_lang,
                     [kind |-> CASE exc = "TimeoutError" -> "UpstreamTimeout"
                                 [] exc = "ValueError" -> "UpstreamEmpty"
                                 [] OTHER -> "UpstreamError",
                      value |-> None, calls |-> 1])
    /\ requests' = LET h == history(requests, request[task].user)
                   IN  Put(requests, request[task].user,
                           IF h = <<>> THEN h ELSE SubSeq(h, 1, Len(h) - 1))
    /\ pc' = [pc EXCEPT ![task] = "idle"]
    /\ request' = [request EXCEPT ![task] = NoRequest]
    /\ UNCHANGED <<now, cacheVars, max_requests, window, historyVars>>

\* (mutant) an exception no clause names ends the handler without a reply
UpstreamRaises_silent(task, exc) ==
    /\ pc[task] = "upstream"
    /\ last' = IF exc = "Exception"
               THEN NoCall
               ELSE Reply(request[task].user, request[task].text, request[task].target_lang,
                          [kind |-> CASE exc = "TimeoutError" -> "UpstreamTimeout"
                                      [] OTHER -> "UpstreamEmpty",
                           value |-> None, calls |-> 1])
    /\ pc' = [pc EXCEPT ![task] = "idle"]
    /\ request' = [request EXCEPT ![task] = NoRequest]
    /\ UNCHANGED <<now, cacheVars, limiterVars, historyVars>>

\* the provider call raises: the except clause that matches picks the reply
UpstreamRaises(task, exc) ==
    /\ pc[task] = "upstream"
    /\ last' = Reply(request[task].user, request[task].text, request[task].target_lang,
                     [kind |-> CASE exc = "TimeoutError" -> "UpstreamTimeout"
                                 [] exc = "ValueError" -> "UpstreamEmpty"
                                 [] OTHER -> "UpstreamError",
                      value |-> None, calls |-> 1])
    /\ pc' = [pc EXCEPT ![task] = "idle"]
    /\ request' = [request EXCEPT ![task] = NoRequest]
    /\ UNCHANGED <<now, cacheVars, limiterVars, historyVars>>

\* TranslateBot.__init__: PerformanceCache(max_size=1000, ttl=3600) and
\* RateLimiter(max_requests=15, window=60), scaled down to the bounds
Init ==
    /\ InitCommon
    /\ max_size = BotMaxSize
    /\ ttl = BotTtl
    /\ max_requests = BotMaxRequests
    /\ window = BotWindow

Next ==
    \/ Tick(BotMaxTime)
    \/ \E task \in Tasks, user_id \in Users, text \in Texts, target_lang \in Langs :
          Gate(task, user_id, text, target_lang)
    \/ \E task \in Tasks, translated_text \in Values \cup {"", None} :
          UpstreamReturns(task, translated_text)
    \/ \E task \in Tasks, exc \in {"TimeoutError", "ValueError", "Exception"} :
          UpstreamRaises(task, exc)

Spec == Init /\ [][Next]_vars

\* the await of run_in_executor is over: the provider call of the task has
\* returned or raised and the event loop resumes its handler
Resumes(task) ==
    \/ \E translated_text \in Values \cup {"", None} : UpstreamReturns(task, translated_text)
    \/ \E exc \in {"TimeoutError", "ValueError", "Exception"} : UpstreamRaises(task, exc)

\* The handler with every provider call coming to an end: the executor runs
\* each call to its return or its exception, and the event loop resumes every
\* handler whose awaited future is done
SpecLive == Spec /\ \A task \in Tasks : WF_vars(Resumes(task))

\* The handler with the time each task began to wait for the provider
NextTimed ==
    \/ Tick(BotMaxTime)
    \/ \E task \in Tasks, user_id \in Users, text \in Texts, target_lang \in Langs :
          TimedGate(task, user_id, text, target_lang)
    \/ \E task \in Tasks, translated_text \in Values \cup {"", None} :
          UpstreamReturns(task, translated_text)
    \/ \E task \in Tasks, exc \in {"TimeoutError", "ValueError", "Exception"} :
          UpstreamRaises(task, exc)

SpecTimed == Init /\ [][NextTimed]_vars

\* The handler with the provider calls it starts counted
NextCalls ==
    \/ Tick(BotMaxTime)
    \/ \E task \in Tasks, user_id \in Users, text \in Texts, target_lang \in Langs :
          CountedGate(task, user_id, text, target_lang)
    \/ \E task \in Tasks, translated_text \in Values \cup {"", None} :
          UpstreamReturns(task, translated_text)
    \/ \E task \in Tasks, exc \in {"TimeoutError", "ValueError", "Exception"} :
          UpstreamRaises(task, exc)

SpecCalls == Init /\ [][NextCalls]_vars

----------------------------------------------------------------------------
(* The handler with requests issued one after the other: a command arrives   *)
(* only when no handler is in flight, and the last reply stays observable    *)
(* while the clock advances.                                                 *)

Wait(limit) ==
    /\ now < limit
    /\ now' = now + 1
    /\ UNCHANGED <<cacheVars, limiterVars, taskVars, last, historyVars>>

SeqGate(task, user_id, text, target_lang) ==
    /\ \A other \in Tasks : pc[other] = "idle"
    /\ Gate(task, user_id, text, target_lang)

InitSeq ==
    /\ InitCommon
    /\ max_size = BotMaxSize
    /\ ttl = BotTtl
    /\ max_requests = MaxRequests
    /\ window = MaxWindow

NextSeq ==
    \/ Wait(BotMaxTime)
    \/ \E task \in Tasks, user_id \in Users, text \in Texts, target_lang \in Langs :
          SeqGate(task, user_id, text, target_lang)
    \/ \E task \in Tasks, translated_text \in Values \cup {"", None} :
          UpstreamReturns(task, translated_text)
    \/ \E task \in Tasks, exc \in {"TimeoutError", "ValueError", "Exception"} :
          UpstreamRaises(task, exc)

SpecSeq == InitSeq /\ [][NextSeq]_vars

----------------------------------------------------------------------------
(* The Wikipedia handler: WikipediaBot.search (WikiTelegram.py).  It runs    *)
(* the same gate and then up to two provider calls: the page lookup, and     *)
(* either the translation of the summary or, when there is no such page,     *)
(* the search for similar titles.                                            *)

\* (mutant) validate_query that returns the query as it came
validate_query_no_trim(query) ==
    IF query = <<>> \/ strip(query) = <<>>
    THEN [valid |-> FALSE, query |-> <<>>, error |-> "Search query cannot be empty"]
    ELSE IF Len(query) > 300
    THEN [valid |-> FALSE, query |-> <<>>, error |-> "Search query is too long"]
    ELSE IF \E i \in 1..Len(strip(query)) : strip(query)[i] \in {"<", ">", "{", "}", "[", "]"}
    THEN [valid |-> FALSE, query |-> <<>>, error |-> "Search query contains invalid characters"]
    ELSE [valid |-> TRUE, query |-> query, error |-> None]

\* InputValidator.validate_query: the verdict and the trimmed query
validate_query(query) ==
    IF query = <<>> \/ strip(query) = <<>>
    THEN [valid |-> FALSE, query |-> <<>>, error |-> "Search query cannot be empty"]
    ELSE IF Len(query) > 300
    THEN [valid |-> FALSE, query |-> <<>>, error |-> "Search query is too long"]
    ELSE IF \E i \in 1..Len(strip(query)) : strip(query)[i] \in {"<", ">", "{", "}", "[", "]"}
    THEN [valid |-> FALSE, query |-> <<>>, error |-> "Search query contains invalid characters"]
    ELSE [valid |-> TRUE, query |-> strip(query), error |-> None]

\* hashlib.md5(f"{query.lower()}:{user_lang}".encode()).hexdigest()
wiki_cache_key(query, user_lang) == <<lower(query), user_lang>>

En == <<"e", "n">>
Queries == {<<"A">>, <<"a">>, <<"<">>}
UserLangs == {En, Fr}

\* the summary of the page the provider holds for a query: titles are case
\* sensitive, "A" and "a" are two pages
Summary(query) == IF query = <<"A">> THEN "x" ELSE "y"

\* what the translation provider makes of a summary
TranslatedSummary(summary) == IF summary = "x" THEN "tx" ELSE "ty"

\* Translator.translate_output: English is passed through without a provider
\* call; a provider call that fails is logged and the original text returned
translate_output(response, user_lang, failed) ==
    IF user_lang # En
    THEN IF failed THEN response ELSE TranslatedSummary(response)
    ELSE response

\* search from its start to the first provider await
wiki_search(reqs, c, ts, t, user_id, raw_query, user_lang) ==
    LET al == is_allowed(reqs, t, user_id)
        qv == validate_query(raw_query)
        key == wiki_cache_key(qv.query, user_lang)
        g == cache_get(c, ts, t, key)
        rejected(kind) == [requests |-> al.requests, cache |-> c, timestamps |-> ts,
                           pc |-> "done", query |-> <<>>,
                           reply |-> [kind |-> kind, value |-> None, calls |-> 0]]
    IN  IF ~al.ret THEN rejected("RateLimited")
        ELSE IF ~qv.valid THEN rejected("InvalidInput")
        ELSE IF Truthy(g.ret)
        THEN [requests |-> al.requests, cache |-> g.cache, timestamps |-> g.timestamps,
              pc |-> "done", query |-> qv.query,
              reply |-> [kind |-> "cached", value |-> g.ret, calls |-> 0]]
        ELSE [requests |-> add_request(al.requests, t, user_id),
              cache |-> g.cache, timestamps |-> g.timestamps,
              pc |-> "page", query |-> qv.query,
              reply |-> [kind |-> "none", value |-> None, calls |-> 1]]

\* the reply of a Wikipedia handler, with the provider calls made for the
\* request and how many of them failed
WikiReply(task, kind, value, failures) ==
    [op |-> "reply", user |-> request[task].user, text |-> request[task].text,
     target_lang |-> request[task].target_lang, kind |-> kind, value |-> value,
     calls |-> request[task].calls, failures |-> failures, at |-> now]

\* the footer send_formatted_result puts under a result: processing_time is
\* <<>> for Python's None (send_cached_result) and <<ms>> for a number, and the
\* test "if processing_time:" is false for None and for 0
send_formatted_result(processing_time) ==
    IF processing_time # <<>> /\ processing_time[1] # 0 THEN "Processed in" ELSE "Cached result"

WikiKey(task) == wiki_cache_key(request[task].text, request[task].target_lang)

\* the handler returns
WikiDone(task) ==
    /\ pc' = [pc EXCEPT ![task] = "idle"]
    /\ request' = [request EXCEPT ![task] = NoRequest]

\* a message arrives and its handler runs up to the page lookup
WikiGate(task, user_id, raw_query, user_lang) ==
    /\ FreeTask(task)
    /\ \E r \in {wiki_search(requests, cache, timestamps, now, user_id, raw_query, user_lang)} :
        /\ requests' = r.requests
        /\ cache' = r.cache
        /\ timestamps' = r.timestamps
        /\ IF r.pc = "page"
           THEN /\ pc' = [pc EXCEPT ![task] = "page"]
                /\ request' = [request EXCEPT ![task] =
                                 [user |-> user_id, text |-> r.query, target_lang |-> user_lang,
                                  start_time |-> now, summary |-> None, calls |-> 1]]
                /\ last' = NoCall
           ELSE /\ last' = Reply(user_id, raw_query, user_lang, r.reply)
                            @@ [failures |-> 0,
                                tag |-> IF r.reply.kind = "cached"
                                        THEN send_formatted_result(<<>>) ELSE "none"]
                /\ UNCHANGED <<pc, request>>
        /\ UNCHANGED <<now, max_size, ttl, max_requests, window, historyVars>>

\* (mutant) a page lookup that raised is tried once more
PageRaises_retry(task, exc) ==
    /\ pc[task] = "page"
    /\ request[task].calls < 2
    /\ request' = [request EXCEPT ![task].calls = @ + 1]
    /\ last' = NoCall
    /\ UNCHANGED <<now, cacheVars, limiterVars, pc, historyVars>>

\* the reply the except clauses of search send for an exception
WikiError(exc) == IF exc = "TimeoutError" THEN "UpstreamTimeout" ELSE "UpstreamError"

\* the page lookup raises
PageRaises(task, exc) ==
    /\ pc[task] = "page"
    /\ last' = WikiReply(task, WikiError(exc), None, 1)
    /\ WikiDone(task)
    /\ UNCHANGED <<now, cacheVars, limiterVars, historyVars>>

\* the page lookup returns: an existing page goes on to translate_output (a
\* provider call unless the user's language is English), a missing page to the
\* search for similar titles
PageReturns(task, exists, summary) ==
    /\ pc[task] = "page"
    /\ summary = Summary(request[task].text)
    /\ IF exists
       THEN /\ pc' = [pc EXCEPT ![task] = "translate"]
            /\ request' = [request EXCEPT
                             ![task].summary = summary,
                             ![task].calls = IF request[task].target_lang # En
                                             THEN @ + 1 ELSE @]
       ELSE /\ pc' = [pc EXCEPT ![task] = "suggest"]
            /\ request' = [request EXCEPT ![task].calls = @ + 1]
    /\ last' = NoCall
    /\ UNCHANGED <<now, cacheVars, limiterVars, historyVars>>

\* translate_output returns, whether or not its provider call failed: the
\* result is stored in the cache and sent
TranslateReturns(task, failed) ==
    /\ pc[task] = "translate"
    /\ failed => request[task].target_lang # En
    /\ \E r \in {cache_set(cache, timestamps, now, WikiKey(task),
                           translate_output(request[task].summary,
                                            request[task].target_lang, failed))} :
          /\ cache' = r.cache
          /\ timestamps' = r.timestamps
          /\ last' = WikiReply(task, "fresh", ValueOf(r.cache, WikiKey(task)),
                               IF failed THEN 1 ELSE 0)
                      @@ [tag |-> send_formatted_result(<<now - request[task].start_time>>)]
    /\ WikiDone(task)
    /\ UNCHANGED <<now, max_size, ttl, limiterVars, historyVars>>

\* the search for similar titles returns, with suggestions or without
SuggestReturns(task, found) ==
    /\ pc[task] = "suggest"
    /\ last' = WikiReply(task, IF found THEN "DidYouMean" ELSE "NotFound", None, 0)
    /\ WikiDone(task)
    /\ UNCHANGED <<now, cacheVars, limiterVars, historyVars>>

\* the search for similar titles raises
SuggestRaises(task, exc) ==
    /\ pc[task] = "suggest"
    /\ last' = WikiReply(task, WikiError(exc), None, 1)
    /\ WikiDone(task)
    /\ UNCHANGED <<now, cacheVars, limiterVars, historyVars>>

\* messages arrive one after the other: none while a handler is in flight
SeqWikiGate(task, user_id, raw_query, user_lang) ==
    /\ \A other \in Tasks : pc[other] = "idle"
    /\ WikiGate(task, user_id, raw_query, user_lang)

\* WikipediaBot.__init__: PerformanceCache(max_size=500, ttl=7200) and
\* RateLimiter(max_requests=10, window=60), scaled down to the bounds
InitWiki ==
    /\ InitCommon
    /\ max_size = BotMaxSize
    /\ ttl = BotTtl
    /\ max_requests = BotMaxRequests
    /\ window = BotWindow

NextWiki ==
    \/ Tick(WikiMaxTime)
    \/ \E task \in Tasks, user_id \in Users, raw_query \in Queries, user_lang \in UserLangs :
          SeqWikiGate(task, user_id, raw_query, user_lang)
    \/ \E task \in Tasks, exists \in BOOLEAN, summary \in Values :
          PageReturns(task, exists, summary)
    \/ \E task \in Tasks, exc \in {"TimeoutError", "Exception"} : PageRaises(task, exc)
    \/ \E task \in Tasks, failed \in BOOLEAN : TranslateReturns(task, failed)
    \/ \E task \in Tasks, found \in BOOLEAN : SuggestReturns(task, found)
    \/ \E task \in Tasks, exc \in {"TimeoutError", "Exception"} : SuggestRaises(task, exc)

SpecWiki == InitWiki /\ [][NextWiki]_vars

----------------------------------------------------------------------------
(* The validators driven directly: one input, drawn in the initial state,    *)
(* and one call of InputValidator.validate_text or validate_language_code    *)
(* on it.                                                                    *)

Bots == {"discord", "telegram"}

\* the character ceiling of validate_text in each bot
TextLimit(bot) == IF bot = "discord" THEN 4000 ELSE 4096

\* a text of n characters: a head character followed by n - 1 fill characters
TextChars == {"a", " ", "E'", "Zh"}
TextLens(bot) == {1, 2, TextLimit(bot) - 1, TextLimit(bot), TextLimit(bot) + 1}
MakeText(n, head, fill) == [i \in 1..n |-> IF i = 1 THEN head ELSE fill]

\* blank padding is drawn for the short texts only
TextShapes ==
    {shape \in [n : UNION {TextLens(b) : b \in Bots}, head : TextChars, fill : TextChars] :
        IsSpace(shape.fill) => shape.n <= 2}
TextInputs ==
    {[op |-> "input", kind |-> "text", bot |-> bot, n |-> shape.n, head |-> shape.head,
      fill |-> shape.fill] : bot \in Bots, shape \in TextShapes}

\* language codes
CodeChars == {" ", "-", "_", "e", "U", "/"}
Spaces(n) == [i \in 1..n |-> " "]
EnUS == <<"e", "n", "-", "U", "S">>
DotDotEtc == <<".", ".", "/", "e", "t", "c">>
ShortCodes == UNION {[1..n -> CodeChars] : n \in 0..MaxCodeLen}
PaddedCodes == {Spaces(l) \o EnUS \o Spaces(r) : l, r \in 0..MaxPad}
LongCodes == {[i \in 1..n |-> "e"] : n \in 9..11} \cup {[i \in 1..n |-> "-"] : n \in 9..11}
LangCodes == ShortCodes \cup PaddedCodes \cup LongCodes \cup {DotDotEtc}

CodeInputs == {[op |-> "input", kind |-> "lang", lang_code |-> code] : code \in LangCodes}

\* the reply of validate_text, kept with the shape of the text it was given
TextVerdict(inp, r) ==
    [op |-> "validate_text", bot |-> inp.bot, n |-> inp.n, head |-> inp.head,
     fill |-> inp.fill, valid |-> r.valid, error |-> r.error]

\* InputValidator.validate_text(text) of TranslateDiscord.py
ValidateText ==
    /\ last.op = "input"
    /\ last.kind = "text"
    /\ last.bot = "discord"
    /\ \E r \in {validate_text(MakeText(last.n, last.head, last.fill))} :
          last' = TextVerdict(last, r)
    /\ UNCHANGED <<now, cacheVars, limiterVars, taskVars, historyVars>>

\* InputValidator.validate_text(text) of TranslateTelegram.py
ValidateTextTelegram ==
    /\ last.op = "input"
    /\ last.kind = "text"
    /\ last.bot = "telegram"
    /\ \E r \in {validate_text_telegram(MakeText(last.n, last.head, last.fill))} :
          last' = TextVerdict(last, r)
    /\ UNCHANGED <<now, cacheVars, limiterVars, taskVars, historyVars>>

\* InputValidator.validate_language_code(lang_code)
ValidateLanguageCode ==
    /\ last.op = "input"
    /\ last.kind = "lang"
    /\ \E r \in {validate_language_code(last.lang_code)} :
          last' = [op |-> "validate_language_code", lang_code |-> last.lang_code,
                   valid |-> r.valid, lang |-> r.lang, error |-> r.error]
    /\ UNCHANGED <<now, cacheVars, limiterVars, taskVars, historyVars>>

\* search queries: a head character, fill characters and a tail character
QueryChars == {"a", " ", "<", "]"}
QueryLens == {1, 2, 3, 299, 300, 301}
MakeQuery(n, head, fill, tail) ==
    [i \in 1..n |-> IF i = 1 THEN head ELSE IF i = n THEN tail ELSE fill]
\* blank padding inside is drawn for the short queries only
QueryShapes ==
    {shape \in [n : QueryLens, head : QueryChars, fill : QueryChars, tail : QueryChars] :
        IsSpace(shape.fill) => shape.n <= 3}
QueryInputs ==
    {[op |-> "input", kind |-> "query",
      query |-> MakeQuery(shape.n, shape.head, shape.fill, shape.tail)] : shape \in QueryShapes}

\* InputValidator.validate_query(query), the same in WikiDiscord.py and
\* WikiTelegram.py
ValidateQuery ==
    /\ last.op = "input"
    /\ last.kind = "query"
    /\ \E r \in {validate_query(last.query)} :
          last' = [op |-> "validate_query", query |-> last.query, valid |-> r.valid,
                   ret |-> r.query, error |-> r.error]
    /\ UNCHANGED <<now, cacheVars, limiterVars, taskVars, historyVars>>

InitValidator ==
    /\ now = 0
    /\ cache = <<>>
    /\ timestamps = <<>>
    /\ requests = <<>>
    /\ pc = [t \in Tasks |-> "idle"]
    /\ request = [t \in Tasks |-> NoRequest]
    /\ touched = <<>>
    /\ stored = [k \in LruKeys |-> NotStored]
    /\ started = <<>>
    /\ max_size = BotMaxSize
    /\ ttl = BotTtl
    /\ max_requests = BotMaxRequests
    /\ window = BotWindow
    /\ last \in TextInputs \cup CodeInputs \cup QueryInputs

NextValidator ==
    \/ ValidateText
    \/ ValidateTextTelegram
    \/ ValidateLanguageCode
    \/ ValidateQuery

SpecValidator == InitValidator /\ [][NextValidator]_vars

----------------------------------------------------------------------------
(* Vocabulary of the properties *)

\* how many timestamps of a history are at most `span` old at time t
CountWithin(h, t, span) == Cardinality({i \in 1..Len(h) : t - h[i] <= span})

\* how many timestamps of a history are less than `span` old at time t
CountInside(h, t, span) == Cardinality({i \in 1..Len(h) : t - h[i] < span})

\* the key a command maps to once its language code is normalised
CommandKey(text, target_lang) == cache_key(text, validate_language_code(target_lang).lang)

\* the key is in the cache and has not expired
Live(key) == key \in KeySet(cache) /\ key \in DOMAIN timestamps /\ now - timestamps[key] <= ttl

\* this step is the first synchronous stretch of a handler for user_id: it
\* either replied at once or suspended a task on the provider call
GateReplied(user_id) ==
    /\ last'.op = "reply"
    /\ last'.kind \in {"RateLimited", "InvalidInput", "cached"}
    /\ last'.user = user_id

GateAdmitted(user_id) ==
    \E task \in Tasks : /\ pc[task] = "idle"
                        /\ pc'[task] = "upstream"
                        /\ request'[task].user = user_id

----------------------------------------------------------------------------
(* C1 .. C10 *)

\* C1: under every interleaving of handlers, at every instant and for every
\* identity, the number of recorded timestamps that lie in [now - window, now]
\* is at most max_requests.
C1_WindowQuota ==
    \A user_id \in DOMAIN requests :
        CountWithin(requests[user_id], now, window) <= max_requests

\* two handlers of one identity are in flight at once and the identity's quota
\* is used up
C1_Witness ==
    /\ pc[1] = "upstream" /\ pc[2] = "upstream"
    /\ request[1].user = request[2].user
    /\ CountWithin(history(requests, request[1].user), now, window) = max_requests

\* C2: a request of an identity whose quota is exhausted is answered
\* RateLimited, whether or not its key is in the cache: no cached value is
\* returned, no task calls the provider and the cache is not consulted.
C2_RateCheckFirst ==
    [][\A user_id \in Users :
          (/\ CountInside(history(requests, user_id), now, window) >= max_requests
           /\ (GateReplied(user_id) \/ GateAdmitted(user_id)))
          => (/\ GateReplied(user_id)
              /\ last'.kind = "RateLimited"
              /\ last'.value = None
              /\ UNCHANGED <<cache, timestamps, pc>>)]_vars

\* a request was answered RateLimited while its key was in the cache, unexpired
C2_Witness ==
    /\ last.op = "reply"
    /\ last.kind = "RateLimited"
    /\ validate_text(last.text).valid
    /\ validate_language_code(last.target_lang).valid
    /\ Live(CommandKey(last.text, last.target_lang))

\* C3: a request served from the cache records nothing: the identity's history
\* after it is its history right after the is_allowed prune, so the count of
\* timestamps inside the window is what it was before the request.
C3_CacheHitIsFree ==
    [][\A user_id \in Users :
          (GateReplied(user_id) /\ last'.kind = "cached")
          => (/\ requests' = is_allowed(requests, now, user_id).requests
              /\ CountInside(history(requests', user_id), now, window)
                   = CountInside(history(requests, user_id), now, window)
              /\ UNCHANGED pc)]_vars

\* a cache hit was served to an identity that had one unit of quota left
C3_Witness ==
    /\ last.op = "reply"
    /\ last.kind = "cached"
    /\ last.value \in Values
    /\ CountInside(history(requests, last.user), now, window) = max_requests - 1

\* C4: after every set, the cache holds at most max_size entries (max_size >= 1).
C4_Capacity ==
    last.op = "set" => /\ Len(cache) <= max_size
                       /\ Cardinality(DOMAIN timestamps) <= max_size

\* a set into a full cache evicted an entry and left the cache full
C4_Witness ==
    /\ last.op = "set"
    /\ last.evicted # None
    /\ Len(cache) = max_size
    /\ max_size > 1

\* C5: whenever a set evicts an entry for capacity, the evicted key is the live
\* key least recently touched, a touch being a get hit or a set of the key
\* (first insert or overwrite).
C5_EvictsLeastRecentlyTouched ==
    (last.op = "set" /\ last.evicted # None) => last.evicted = last.lru

\* C6: a key set at time T, not overwritten and not evicted for capacity since,
\* is returned by every get before T + ttl and is absent for every get after
\* T + ttl.
C6_TtlWindow ==
    (last.op = "get" /\ stored[last.key] # NotStored)
    => /\ now < stored[last.key].at + ttl => last.ret = stored[last.key].value
       /\ now > stored[last.key].at + ttl => last.ret = None

\* a get found a key expired that was set, never overwritten and never evicted
\* for capacity, while the cache was holding another entry
C6_Witness ==
    /\ last.op = "get"
    /\ stored[last.key] # NotStored
    /\ now > stored[last.key].at + ttl
    /\ last.ret = None
    /\ cache # <<>>

\* this step is a call is_allowed(user_id)
IsAllowedStep(user_id) == last'.op = "is_allowed" /\ last'.user = user_id

C8_CountsAgeAtMostWindow ==
    [][\A user_id \in Users :
          IsAllowedStep(user_id)
          => (last'.ret <=>
                CountWithin(history(requests, user_id), now, window) < max_requests)]_vars

\* C8, amended: is_allowed answers true exactly when fewer than max_requests
\* timestamps of the identity have age < window; a timestamp exactly window old
\* is discarded and does not count.
C8_CountsAgeBelowWindow ==
    [][\A user_id \in Users :
          IsAllowedStep(user_id)
          => (last'.ret <=>
                CountInside(history(requests, user_id), now, window) < max_requests)]_vars

\* is_allowed admitted an identity whose quota was filled by timestamps exactly
\* window old
C8_Witness ==
    /\ last.op = "is_allowed"
    /\ last.ret = TRUE
    /\ CountWithin(last.before, now, window) >= max_requests
    /\ \E i \in 1..Len(last.before) : now - last.before[i] = window

\* a is a sub-sequence of b: a is b with some elements removed
RECURSIVE IsSubsequence(_, _)
IsSubsequence(a, b) ==
    IF a = <<>> THEN TRUE
    ELSE IF b = <<>> THEN FALSE
    ELSE IF Head(a) = Head(b) THEN IsSubsequence(Tail(a), Tail(b))
    ELSE IsSubsequence(a, Tail(b))

\* C9: is_allowed records nothing: the identity's history after the call is a
\* sub-sequence of its history before, every other identity's history is
\* untouched, and a second call at the same instant gives the same answer.
C9_IsAllowedRecordsNothing ==
    [][\A user_id \in Users :
          IsAllowedStep(user_id)
          => /\ IsSubsequence(history(requests', user_id), history(requests, user_id))
             /\ \A other \in Users \ {user_id} :
                   /\ (other \in DOMAIN requests') = (other \in DOMAIN requests)
                   /\ history(requests', other) = history(requests, other)
             /\ is_allowed(requests', now, user_id).ret = last'.ret]_vars

\* is_allowed admitted an identity and pruned part of its history, keeping the
\* rest, while another identity had a history of its own
C9_Witness ==
    /\ last.op = "is_allowed"
    /\ last.ret = TRUE
    /\ history(requests, last.user) # <<>>
    /\ Len(history(requests, last.user)) < Len(last.before)
    /\ \E other \in Users \ {last.user} : history(requests, other) # <<>>

\* C10: a request rejected by the rate check or by validation leaves the cache
\* as it was (entries, stored times, order) and starts no provider call.
C10_RejectionsLeaveCacheAlone ==
    [][\A user_id \in Users :
          (GateReplied(user_id) /\ last'.kind \in {"RateLimited", "InvalidInput"})
          => /\ UNCHANGED <<cache, timestamps>>
             /\ UNCHANGED <<pc, request>>
             /\ last'.calls = 0]_vars

\* an invalid request was rejected while the cache held an expired entry, which
\* any cache call would have purged
C10_Witness ==
    /\ last.op = "reply"
    /\ last.kind = "InvalidInput"
    /\ \E key \in DOMAIN timestamps : now - timestamps[key] > ttl

----------------------------------------------------------------------------
(* C11 .. C20 *)

\* the command's text and language code pass InputValidator
ValidCommand(text, target_lang) ==
    validate_text(text).valid /\ validate_language_code(target_lang).valid

\* C11: validation comes before the rate check: a command whose text or
\* language code is invalid is answered InvalidInput whatever the quota state
\* of its identity is.
C11_ValidationFirst ==
    (last.op = "reply" /\ ~ValidCommand(last.text, last.target_lang))
    => last.kind = "InvalidInput"

\* this step is the first stretch of a handler for the command the last reply
\* answered, sent again by the same identity
SameCommandAgain(user_id) ==
    /\ user_id = last.user
    /\ \/ /\ GateReplied(user_id)
          /\ last'.text = last.text
          /\ last'.target_lang = last.target_lang
       \/ \E task \in Tasks :
             /\ pc[task] = "idle"
             /\ pc'[task] = "upstream"
             /\ request'[task].user = user_id
             /\ request'[task].text = last.text
             /\ request'[task].target_lang = validate_language_code(last.target_lang).lang

\* C12: when a command was answered fresh (one provider call) and the same
\* identity sends the same command next, within the TTL of the stored result
\* and with quota left, the second command is answered cached with the same
\* value and no provider call: one provider call in total.
C12_SecondIsCached ==
    [][\A user_id \in Users :
          (/\ last.op = "reply"
           /\ last.kind = "fresh"
           /\ last.calls = 1
           /\ SameCommandAgain(user_id)
           /\ now - last.at <= ttl
           /\ CountInside(history(requests, user_id), now, window) < max_requests)
          => (/\ GateReplied(user_id)
              /\ last'.kind = "cached"
              /\ last'.value = last.value
              /\ last'.calls = 0
              /\ UNCHANGED pc)]_vars

\* a command was served from the cache at a later instant than the only
\* provider call made for its identity, still inside the window
C12_Witness ==
    /\ last.op = "reply"
    /\ last.kind = "cached"
    /\ Len(history(requests, last.user)) = 1
    /\ history(requests, last.user)[1] < now
    /\ now - history(requests, last.user)[1] < window
    /\ timestamps[CommandKey(last.text, last.target_lang)] < now
    /\ \A other \in Users \ {last.user} : history(requests, other) = <<>>

\* C13: a provider call that has not returned within the timeout ends the
\* request with UpstreamTimeout: no handler is still waiting for the provider
\* more than UpstreamTimeout after it began to wait.
C13_WaitIsBounded ==
    \A task \in Tasks :
        pc[task] = "upstream" => now - request[task].start_time <= UpstreamTimeout

\* this step ends the wait of a task: the provider returned or raised
TaskEnded(task) == pc[task] = "upstream" /\ pc'[task] = "idle"

\* the replies that report a failed provider call
ErrorKinds == {"UpstreamEmpty", "UpstreamTimeout", "UpstreamError"}

\* C14: cache.set happens only with a non-empty provider result: a handler
\* that resumes either replies fresh and has stored that non-empty value under
\* its key, or replies with an error and leaves the cache unchanged; and no
\* other step stores anything.
C14_StoreOnlyOnSuccess ==
    [][/\ \A task \in Tasks :
             TaskEnded(task)
             => \/ /\ last'.kind = "fresh"
                   /\ Truthy(last'.value)
                   /\ TaskKey(task) \in KeySet(cache')
                   /\ ValueOf(cache', TaskKey(task)) = last'.value
                   /\ timestamps'[TaskKey(task)] = now
                \/ /\ last'.kind \in ErrorKinds
                   /\ UNCHANGED <<cache, timestamps>>
       /\ \A key \in DOMAIN timestamps' :
             (key \notin DOMAIN timestamps \/ timestamps'[key] # timestamps[key])
             => /\ last'.op = "reply"
                /\ last'.kind = "fresh"
                /\ Truthy(last'.value)
                /\ ValueOf(cache', key) = last'.value]_vars

\* a provider call failed for a key that is not in the cache, while the cache
\* holds another entry
C14_Witness ==
    /\ last.op = "reply"
    /\ last.kind \in ErrorKinds
    /\ validate_language_code(last.target_lang).valid
    /\ CommandKey(last.text, last.target_lang) \notin KeySet(cache)
    /\ cache # <<>>

\* C15 as stated: the provider is invoked at most once for a request.
C15_AtMostOneCall ==
    last.op = "reply" => last.calls <= 1

\* the order in which a Wikipedia handler moves through its provider calls
ForwardSteps ==
    {<<"idle", "page">>, <<"page", "translate">>, <<"page", "suggest">>,
     <<"page", "idle">>, <<"translate", "idle">>, <<"suggest", "idle">>}

\* C15, amended: no provider call is repeated.  A handler only moves forward
\* through its calls (page lookup, then translation or the search for similar
\* titles), a waiting handler makes no new call without moving on, a handler
\* that replies has ended, and a request makes at most two calls.
C15_NoCallRepeated ==
    [][\A task \in Tasks :
          /\ pc'[task] # pc[task] => <<pc[task], pc'[task]>> \in ForwardSteps
          /\ (pc[task] # "idle" /\ pc'[task] = pc[task]) => request'[task] = request[task]
          /\ (pc[task] # "idle" /\ pc'[task] # pc[task] /\ last'.op = "reply")
             => (pc'[task] = "idle" /\ last'.calls <= 2)]_vars

\* a page lookup found no page and the handler went on to call the search for
\* similar titles: two provider calls for one request
C15_Witness ==
    /\ last.op = "reply"
    /\ last.kind \in {"NotFound", "DidYouMean"}
    /\ last.calls = 2

\* C16: no provider failure is turned into a success: a request for which a
\* provider call failed ends with an error reply.
C16_NoFailureBecomesSuccess ==
    (last.op = "reply" /\ last.failures > 0) => last.kind \in ErrorKinds

\* C17: requests for the same key are not de-duplicated: two handlers can both
\* miss and both wait for the provider; whatever they then store, the cache
\* holds at most one entry per key, and the timestamp table holds exactly the
\* keys of the cache.
C17_OneEntryPerKey ==
    /\ \A i, j \in 1..Len(cache) : cache[i].key = cache[j].key => i = j
    /\ DOMAIN timestamps = KeySet(cache)

\* two handlers missed on the same key and both called the provider: one has
\* stored its result and replied, the other is still waiting and will store too
C17_Witness ==
    /\ last.op = "reply"
    /\ last.kind = "fresh"
    /\ CommandKey(last.text, last.target_lang) \in KeySet(cache)
    /\ \E task \in Tasks :
          /\ pc[task] = "upstream"
          /\ TaskKey(task) = CommandKey(last.text, last.target_lang)

ShapeBlank(n, head, fill) == IsSpace(head) /\ (n = 1 \/ IsSpace(fill))
ShapeBytes(n, head, fill) == Utf8Width(head) + (n - 1) * Utf8Width(fill)

\* C19 as stated: validate_text accepts every non-blank text of exactly the
\* maximum number of characters (4000 on Discord, 4096 on Telegram) and rejects
\* every non-blank text one character longer.
C19_AcceptsAtLimit ==
    last.op = "validate_text" =>
        LET limit == IF last.bot = "discord" THEN 4000 ELSE 4096
        IN  ~ShapeBlank(last.n, last.head, last.fill) =>
                /\ last.n = limit => last.valid
                /\ last.n = limit + 1 => ~last.valid

\* C19: validate_text accepts every non-blank text of exactly the maximum number
\* of characters (4000 on Discord, 4096 on Telegram) whose UTF-8 encoding takes
\* at most 8000 bytes, and rejects every text one character longer; at the
\* maximum it rejects the texts of more than 8000 bytes.
C19_AcceptsAtLimitWithinBytes ==
    last.op = "validate_text" =>
        LET limit == IF last.bot = "discord" THEN 4000 ELSE 4096
            bytes == ShapeBytes(last.n, last.head, last.fill)
        IN  ~ShapeBlank(last.n, last.head, last.fill) =>
                /\ last.n = limit => (last.valid <=> bytes <= 8000)
                /\ last.n = limit + 1 => ~last.valid

\* a text of exactly 4000 two-byte characters, 8000 bytes, is accepted
C19_Witness ==
    /\ last.op = "validate_text"
    /\ last.bot = "discord"
    /\ last.n = 4000
    /\ last.head = "E'"
    /\ last.fill = "E'"
    /\ last.valid

\* Vocabulary of C20
NonBlanks(code) == {i \in 1..Len(code) : code[i] # " "}
Lowest(S) == CHOOSE i \in S : \A j \in S : i <= j
Highest(S) == CHOOSE i \in S : \A j \in S : j <= i
Trimmed(code) ==
    IF NonBlanks(code) = {} THEN <<>>
    ELSE SubSeq(code, Lowest(NonBlanks(code)), Highest(NonBlanks(code)))
LowerCased(code) == [i \in 1..Len(code) |-> Lower(code[i])]
IllFormed(code) ==
    \/ NonBlanks(code) = {}
    \/ Len(code) > 10
    \/ \E i \in 1..Len(Trimmed(code)) :
          ~IsAlnum(Trimmed(code)[i]) /\ Trimmed(code)[i] \notin {"-", "_"}

\* C20 as stated: validate_language_code rejects a code exactly when it is empty
\* or blank, longer than 10 characters, or contains a character other than a
\* letter, a digit, '-' or '_'; an accepted code is returned trimmed and
\* lower-cased.
C20_RejectsExactlyIllFormed ==
    last.op = "validate_language_code" =>
        /\ last.valid <=> ~IllFormed(last.lang_code)
        /\ last.valid => last.lang = LowerCased(Trimmed(last.lang_code))

\* C20: validate_language_code rejects a code exactly when it is empty or blank,
\* longer than 10 characters (blanks around it counted), contains a character
\* other than a letter, a digit, '-' or '_', or contains no letter or digit at
\* all; an accepted code is returned trimmed and lower-cased.
C20_RejectsIllFormedOrBare ==
    last.op = "validate_language_code" =>
        /\ last.valid <=>
              /\ ~IllFormed(last.lang_code)
              /\ \E i \in 1..Len(last.lang_code) : IsAlnum(last.lang_code[i])
        /\ last.valid => last.lang = LowerCased(Trimmed(last.lang_code))

\* " en-US" is accepted and returned as "en-us"
C20_Witness ==
    /\ last.op = "validate_language_code"
    /\ last.lang_code = <<" ">> \o EnUS
    /\ last.valid
    /\ last.lang = <<"e", "n", "-", "u", "s">>

----------------------------------------------------------------------------
(* C21 .. C30 *)

\* the keys whose stored time is more than ttl before t
ExpiredAt(ts, t) == {k \in DOMAIN ts : t - ts[k] > ttl}

\* C21: a get that misses changes nothing except removing expired entries: the
\* unexpired entries, their stored times and their order are the same after the
\* call as before, and the expired ones are gone.
C21_MissOnlyPurges ==
    [][(last'.op = "get" /\ last'.ret = None)
       => /\ cache' = SelectSeq(cache, LAMBDA e : e.key \notin ExpiredAt(timestamps, now))
          /\ timestamps' = [k \in DOMAIN timestamps \ ExpiredAt(timestamps, now) |->
                              timestamps[k]]]_vars

\* a get missed while the cache held two unexpired entries, after an entry had
\* expired and been purged
C21_Witness ==
    /\ last.op = "get"
    /\ last.ret = None
    /\ Len(cache) >= 2
    /\ \E k \in Keys : /\ stored[k] # NotStored
                       /\ now - stored[k].at > ttl
                       /\ k \notin KeySet(cache)

\* the keys of the unexpired entries at time t
LiveKeys(c, ts, t) == KeySet(c) \ ExpiredAt(ts, t)

\* C22: a set evicts an unexpired entry only when inserting would exceed
\* capacity: a set that overwrites a key already present removes no other
\* entry, and a set of a new key evicts exactly one entry when the cache is full
\* and none otherwise.
C22_EvictsOnlyOnOverflow ==
    [][last'.op = "set"
       => LET live == LiveKeys(cache, timestamps, now)
              gone == live \ KeySet(cache')
          IN  /\ last'.key \in live => gone = {}
              /\ last'.key \notin live =>
                    Cardinality(gone) = IF Cardinality(live) >= max_size THEN 1 ELSE 0]_vars

\* C23: every access path purges: right after any get or set performed at time
\* t, no entry of the cache is older than ttl, and the two tables hold the same
\* keys.
C23_NothingExpiredAfterAccess ==
    last.op \in {"get", "set"}
    => /\ \A k \in DOMAIN timestamps : now - timestamps[k] <= ttl
       /\ KeySet(cache) = DOMAIN timestamps

\* a set was made after an entry had outlived ttl: that entry is gone, a younger
\* one is kept
C23_Witness ==
    /\ last.op = "set"
    /\ \E k \in Keys \ {last.key} : /\ stored[k] # NotStored
                                    /\ now - stored[k].at > ttl
                                    /\ k \notin KeySet(cache)
    /\ \E k \in KeySet(cache) \ {last.key} : now - timestamps[k] <= ttl

\* C24: after set(key, value) an immediate get(key) returns value; a set leaves
\* exactly one entry for the key, holding the new value, and its stored time is
\* the time of the set, also when the key was already present.
C24_SetThenGet ==
    [][/\ last'.op = "set"
          => /\ Cardinality({i \in 1..Len(cache') : cache'[i].key = last'.key}) = 1
             /\ ValueOf(cache', last'.key) = stored'[last'.key].value
             /\ timestamps'[last'.key] = now'
       /\ (last.op = "set" /\ last'.op = "get" /\ last'.key = last.key)
          => last'.ret = stored[last.key].value]_vars

\* a set replaced another value stored earlier under the same key
C24_Witness ==
    /\ last.op = "set"
    /\ last.old # NotStored
    /\ last.old.value # ValueOf(cache, last.key)
    /\ last.old.at < now
    /\ timestamps[last.key] = now

\* the step ran cache.get: a cached reply was sent, or a handler missed and went
\* on to the provider
StepGets ==
    \/ last'.op = "reply" /\ last'.kind = "cached"
    \/ \E task \in Tasks : pc[task] = "idle" /\ pc'[task] = "upstream"

\* the step ran cache.set: a fresh reply was sent
StepSets == last'.op = "reply" /\ last'.kind = "fresh"

\* C25: an entry leaves the cache only through TTL expiry (it is older than ttl
\* at a get or a set) or through capacity eviction during a set into a full
\* cache, one entry per set; no get, rate-limiter operation or failed request
\* removes an unexpired entry, and the two tables lose the same keys.
C25_LeavesByExpiryOrEviction ==
    [][LET gone == KeySet(cache) \ KeySet(cache')
           expired == ExpiredAt(timestamps, now)
       IN  /\ gone \cap expired # {} => StepGets \/ StepSets
           /\ gone \ expired # {}
              => /\ StepSets
                 /\ Cardinality(gone \ expired) = 1
                 /\ Cardinality(KeySet(cache) \ expired) >= max_size
           /\ DOMAIN timestamps \ DOMAIN timestamps' = gone]_vars

\* a provider call failed while the cache held an unexpired entry under the
\* failed request's own key, and the entry is still there
C25_Witness ==
    /\ last.op = "reply"
    /\ last.kind \in {"UpstreamTimeout", "UpstreamEmpty", "UpstreamError"}
    /\ \E lang \in {validate_language_code(last.target_lang).lang} :
          /\ cache_key(last.text, lang) \in KeySet(cache)
          /\ now - timestamps[cache_key(last.text, lang)] <= ttl

AddRequestStep(user_id) == last'.op = "add_request" /\ last'.user = user_id

\* C26 as stated: after any is_allowed or add_request call for an identity at
\* time now, the identity's history holds no timestamp older than window.
C26_PrunedOnEveryCall ==
    [][\A user_id \in Users :
          (IsAllowedStep(user_id) \/ AddRequestStep(user_id))
          => \A i \in 1..Len(history(requests', user_id)) :
                now - history(requests', user_id)[i] <= window]_vars

\* C26: timestamps are pruned by is_allowed only: after an is_allowed call for
\* an identity at time now every timestamp of its history is less than window
\* old; add_request appends now to the history and removes nothing.
C26_PrunedOnIsAllowedOnly ==
    [][\A user_id \in Users :
          /\ IsAllowedStep(user_id)
             => \A i \in 1..Len(history(requests', user_id)) :
                   now - history(requests', user_id)[i] < window
          /\ AddRequestStep(user_id)
             => history(requests', user_id) = Append(history(requests, user_id), now)]_vars

\* add_request was called for an identity whose history holds a timestamp older
\* than window, and the timestamp is still there
C26_Witness ==
    /\ last.op = "add_request"
    /\ history(requests, last.user)[Len(history(requests, last.user))] = now
    /\ \E i \in 1..Len(history(requests, last.user)) :
          now - history(requests, last.user)[i] > window

\* C27: the set of identities tracked by the rate limiter never shrinks: an
\* identity whose request reached the rate check, whether it was then rejected,
\* served from the cache or admitted, has a history entry from then on, even an
\* empty one.
C27_IdentitiesNeverShrink ==
    [][/\ DOMAIN requests \subseteq DOMAIN requests'
       /\ \A user_id \in Users :
             (GateReplied(user_id) \/ GateAdmitted(user_id)) => user_id \in DOMAIN requests']_vars

\* an identity whose request was rejected as invalid is tracked with an empty
\* history, next to an identity whose only timestamp has left the window
C27_Witness ==
    /\ last.op = "reply"
    /\ last.kind = "InvalidInput"
    /\ last.user \in DOMAIN requests
    /\ requests[last.user] = <<>>
    /\ \E other \in DOMAIN requests \ {last.user} :
          /\ requests[other] # <<>>
          /\ \A i \in 1..Len(requests[other]) : now - requests[other][i] > window

\* C28: the provenance tag tells the truth: a successful reply is tagged
\* "Cached result" exactly when it was served from the cache without a provider
\* call in this request, and "Processed in" exactly when the provider was called
\* in this request, whatever the measured latency, zero included.
C28_TagTellsTruth ==
    (last.op = "reply" /\ last.kind \in {"cached", "fresh"})
    => /\ last.tag = "Cached result" <=> (last.kind = "cached" /\ last.calls = 0)
       /\ last.tag = "Processed in" <=> (last.kind = "fresh" /\ last.calls > 0)

\* what the provider calls of a Wikipedia request can produce for the arguments
\* the handler passes them: the page of the trimmed query, put into the user's
\* language or left as it is when that translation fails
OwnResults(raw_query, user_lang) ==
    {translate_output(Summary(validate_query(raw_query).query), user_lang, failed) :
        failed \in BOOLEAN}

\* C29: the cache key identifies the request passed upstream: requests share a
\* key exactly when their upstream arguments (query and locale) are equal, so a
\* reply served from the cache carries a value that the provider produces for
\* the current request's own arguments.
C29_HitIsOwnResult ==
    (last.op = "reply" /\ last.kind = "cached")
    => last.value \in OwnResults(last.text, last.target_lang)

\* C30: validate_query rejects a query exactly when it is empty or blank, is
\* longer than 300 characters, or contains one of the characters < > { } [ ];
\* every other query is accepted and returned with the blanks around it removed.
C30_RejectsExactlyMarkupBlankLong ==
    last.op = "validate_query" =>
        /\ last.valid <=>
              ~ \/ NonBlanks(last.query) = {}
                \/ Len(last.query) > 300
                \/ \E i \in 1..Len(last.query) :
                      last.query[i] \in {"<", ">", "{", "}", "[", "]"}
        /\ last.valid => last.ret = Trimmed(last.query)

\* a query of exactly 300 characters with a blank at either end is accepted and
\* returned without the blanks
C30_Witness ==
    /\ last.op = "validate_query"
    /\ Len(last.query) = 300
    /\ last.query[1] = " "
    /\ last.query[300] = " "
    /\ last.valid
    /\ Len(last.ret) = 298

----------------------------------------------------------------------------
(* C31 .. C38 *)

\* C31: identities are independent in the rate limiter: is_allowed and
\* add_request for one identity never change the history of another identity,
\* nor whether it is tracked, so the answer of is_allowed for the other
\* identity at that instant is the same before and after.
C31_IdentitiesIndependent ==
    [][\A user_id \in Users :
          (IsAllowedStep(user_id) \/ AddRequestStep(user_id))
          => \A other \in Users \ {user_id} :
                /\ (other \in DOMAIN requests') = (other \in DOMAIN requests)
                /\ history(requests', other) = history(requests, other)
                /\ is_allowed(requests', now, other).ret = is_allowed(requests, now, other).ret]_vars

\* one identity has just used up its quota while another identity, with a
\* history of its own, is still admitted
C31_Witness ==
    /\ last.op = "add_request"
    /\ ~is_allowed(requests, now, last.user).ret
    /\ \E other \in Users \ {last.user} :
          /\ history(requests, other) # <<>>
          /\ is_allowed(requests, now, other).ret

\* C32: a rejected request never counts against the quota: a request that ends
\* as RateLimited or InvalidInput adds no timestamp to its identity's history
\* (the history after it is a sub-sequence of the history before) and leaves
\* the other identities alone, so is_allowed answers for the identity at this
\* and at every later instant what it would have answered without the request.
C32_RejectedNotCounted ==
    [][\A user_id \in Users :
          (GateReplied(user_id) /\ last'.kind \in {"RateLimited", "InvalidInput"})
          => /\ IsSubsequence(history(requests', user_id), history(requests, user_id))
             /\ \A other \in Users \ {user_id} :
                   history(requests', other) = history(requests, other)
             /\ \A t \in now..BotMaxTime :
                   is_allowed(requests', t, user_id).ret = is_allowed(requests, t, user_id).ret]_vars

\* a request was turned away by the rate check and the identity's history still
\* holds just the timestamps that fill its quota
C32_Witness ==
    /\ last.op = "reply"
    /\ last.kind = "RateLimited"
    /\ Len(history(requests, last.user)) = max_requests
    /\ now < BotMaxTime

\* C33: every request that reaches the provider call adds exactly one timestamp
\* to its identity's history, in the step that starts the call: the history is
\* then its unexpired part followed by the current time.  Whatever the provider
\* does next (a result, an empty result, a timeout, an error), the step that
\* ends the request leaves every history as it is.
C33_OneTimestampBeforeCall ==
    [][/\ \A user_id \in Users :
             GateAdmitted(user_id)
             => history(requests', user_id)
                = Append(SelectSeq(history(requests, user_id),
                                   LAMBDA req_time : now - req_time < window), now)
       /\ (\E task \in Tasks : TaskEnded(task)) => requests' = requests]_vars

\* the provider timed out and the identity is turned away all the same: the
\* failed request has used its quota
C33_Witness ==
    /\ last.op = "reply"
    /\ last.kind = "UpstreamTimeout"
    /\ now \in {history(requests, last.user)[i] : i \in 1..Len(history(requests, last.user))}
    /\ ~is_allowed(requests, now, last.user).ret

\* the provider calls started for an identity at the instants from..to
CallsStarted(user_id, from, to) ==
    Cardinality({i \in 1..Len(history(started, user_id)) :
                    /\ from <= history(started, user_id)[i]
                    /\ history(started, user_id)[i] <= to})

\* no identity has more than max_requests provider calls started in any window
\* consecutive instants t .. t + window - 1
CallsBounded ==
    \A user_id \in Users, t \in 0..now :
        CallsStarted(user_id, t, t + window - 1) <= max_requests

C35_HitKeepsStoredTime ==
    [][last'.op = "get"
       => /\ last'.ret # None
             => /\ cache'[Len(cache')].key = last'.key
                /\ timestamps'[last'.key] = timestamps[last'.key]
                /\ timestamps'[last'.key] = stored[last'.key].at
          /\ (stored[last'.key] # NotStored /\ now - stored[last'.key].at > ttl)
             => last'.ret = None]_vars

\* a get returned an entry that is at the very end of its life: the entry is
\* now the most recent of the cache although the other entry was stored later
C35_Witness ==
    /\ last.op = "get"
    /\ last.ret # None
    /\ Len(cache) = 2
    /\ cache[2].key = last.key
    /\ timestamps[cache[1].key] > timestamps[last.key]
    /\ now - timestamps[last.key] = ttl

\* C36: every value stored in the cache is non-empty, so the truthiness test of
\* the gate on the result of cache.get takes a request for a hit exactly when
\* its key is present and unexpired: a cached reply is sent only for a key that
\* was live, with the value stored under it, and a handler goes on to the
\* provider only for a key that was not.
C36_HitIffLive ==
    [][/\ \A i \in 1..Len(cache') : Truthy(cache'[i].value)
       /\ (last'.op = "reply" /\ last'.kind = "cached")
          => /\ Live(CommandKey(last'.text, last'.target_lang))
             /\ last'.value = ValueOf(cache, CommandKey(last'.text, last'.target_lang))
       /\ \A task \in Tasks :
             (pc[task] = "idle" /\ pc'[task] = "upstream")
             => ~Live(cache_key(request'[task].text, request'[task].target_lang))]_vars

\* a request was served from an entry exactly ttl old, the only one of the cache
C36_Witness ==
    /\ last.op = "reply"
    /\ last.kind = "cached"
    /\ Truthy(last.value)
    /\ Len(cache) = 1
    /\ now - timestamps[cache[1].key] = ttl

\* the outcomes of a request
Outcomes ==
    {"RateLimited", "InvalidInput", "cached", "fresh",
     "UpstreamEmpty", "UpstreamTimeout", "UpstreamError"}

\* the outcomes the gate gives at once, without a provider call
GateOutcomes == {"RateLimited", "InvalidInput", "cached"}

\* C37: provided each provider call returns or raises, every handled request
\* ends with exactly one outcome out of RateLimited, InvalidInput, cached,
\* fresh, UpstreamEmpty, UpstreamTimeout, UpstreamError: a handler that waits
\* for the provider comes to its end; the gate either replies at once with one
\* of its three outcomes and suspends nothing, or suspends one handler and
\* replies nothing; the step that ends a waiting handler sends one reply, to
\* the request of that handler, with one of the four other outcomes; and no
\* other step sends a reply or ends a handler.
C37_ExactlyOneOutcome ==
    /\ \A task \in Tasks : pc[task] = "upstream" ~> pc[task] = "idle"
    /\ [][/\ Cardinality({task \in Tasks : pc'[task] # pc[task]}) <= 1
          /\ now' # now => (pc' = pc /\ last' = NoCall)
          /\ (now' = now /\ pc' = pc)
             => /\ last'.op = "reply"
                /\ last'.kind \in GateOutcomes
                /\ last'.at = now
          /\ \A task \in Tasks :
                /\ (pc[task] = "idle" /\ pc'[task] = "upstream")
                   => (last' = NoCall /\ request'[task] # NoRequest)
                /\ TaskEnded(task)
                   => /\ last'.op = "reply"
                      /\ last'.kind \in Outcomes \ GateOutcomes
                      /\ last'.user = request[task].user
                      /\ last'.text = request[task].text
                      /\ last'.at = now
                      /\ request'[task] = NoRequest]_vars

\* a handler ended with a timeout of the provider while another one still waits
C37_Witness ==
    /\ last.op = "reply"
    /\ last.kind = "UpstreamTimeout"
    /\ \E task \in Tasks : pc[task] = "upstream" /\ request[task].user # last.user
    /\ \E task \in Tasks : pc[task] = "idle"

\* C38: in every reachable state the value store and the timestamp table of
\* the cache have exactly the same keys, each of them once: every stored value
\* has a stored time and every stored time belongs to a stored value, after
\* any sequence of get, set, expiry purge and capacity eviction.
C38_SameKeys ==
    /\ KeySet(cache) = DOMAIN timestamps
    /\ Cardinality(KeySet(cache)) = Len(cache)

\* a set has just popped the oldest key for capacity, after a purge had
\* dropped an expired key that was not stored again
C38_Witness ==
    /\ last.op = "set"
    /\ last.evicted # None
    /\ cache # <<>>
    /\ last.evicted \notin KeySet(cache) \cup DOMAIN timestamps
    /\ \E k \in Keys : /\ stored[k] # NotStored
                       /\ k \notin KeySet(cache) \cup DOMAIN timestamps

====
